---- MODULE Spec2Model ----
(***************************************************************************)
(* A model of the interview-question pipeline of go-openai                 *)
(* (src/interview.go, src/utils.go).                                       *)
(*                                                                         *)
(* Go strings are modelled as sequences of one-character strings, so that  *)
(* trimming, indexing, slicing and splitting are computed as the code      *)
(* computes them.  Go's 0-based positions are kept in the operators that   *)
(* return positions (Index); slices s[a:b] become SubSeq(s, a+1, b).       *)
(***************************************************************************)
EXTENDS Integers, Sequences, FiniteSets, TLC

VARIABLES
    \* --- stripLeadingNumbers applied as a function (SpecStrip) ---
    sPc,      \* position of the function-level run
    sIn,      \* the argument string
    sDot,     \* stripLeadingNumber(sIn, ".")
    sParen,   \* stripLeadingNumber(sIn, ")")
    sOut,     \* stripLeadingNumbers(sIn)
    sOut2,    \* stripLeadingNumbers(stripLeadingNumbers(sIn))
    \* --- parseInterviewChoice / Shuffle (SpecParse, and called by Spec) ---
    ppc,      \* position inside parseInterviewChoice
    text,     \* ch.Text
    shuffle,  \* the shuffle argument
    parts,    \* the lines of ch.Text not yet visited by the range loop
    data,     \* the questions parsed so far (the slice Shuffle permutes)
    shufN,    \* len(questions) of Shuffle's shrinking slice header
    randIndex,\* Shuffle's last random index
    draws,    \* number of calls of random made by the running Shuffle
    shufOrig, \* data as it was when Shuffle was entered
    items,    \* what parseInterviewChoice returned (empty for a nil slice)
    \* --- Client.InterviewQuestions (Spec) ---
    pc,       \* position inside InterviewQuestions
    input,    \* the InterviewInput argument
    settings, \* the caller's settings object (NilPtr for a nil pointer)
    options,  \* the caller's options object (NilPtr for a nil pointer)
    opts,     \* the local options pointer after the default is substituted
    jobTitle, jobDesc, prompt, request, quesCap,
    resp,     \* the completion response
    chIdx,    \* index of the choice being processed (1-based)
    itIdx,    \* index of the item the inner range loop is at (1-based)
    calls,    \* number of CreateCompletion calls made
    result,   \* the InterviewResponse being built (NilPtr before)
    err,      \* the returned error ("" for nil)
    \* --- NewInterviewSettingsRand (SpecRand) ---
    rPc,      \* position inside NewInterviewSettingsRand
    rTemp,    \* the local temp (*float32, in hundredths)
    rTopP,    \* the local topP (*float32, in hundredths)
    rTempTop, \* the selector draw
    rSettings,\* the returned *InterviewRequestSettings
    \* --- concurrent invocations of InterviewQuestions (SpecConc) ---
    cPc,      \* position of each invocation
    cArg,     \* the settings object each invocation was given
    cEngine,  \* the Engine string header (data word, length word) of each object
    cSeen     \* the Engine header each invocation last read

stripVars == <<sPc, sIn, sDot, sParen, sOut, sOut2>>
parseVars == <<ppc, text, shuffle, parts, data, shufN, randIndex, draws, shufOrig, items>>
mainVars == <<pc, input, settings, options, opts, jobTitle, jobDesc, prompt,
              request, quesCap, resp, chIdx, itIdx, calls, result, err>>
randVars == <<rPc, rTemp, rTopP, rTempTop, rSettings>>
concVars == <<cPc, cArg, cEngine, cSeen>>
vars == <<stripVars, parseVars, mainVars, randVars, concVars>>

\* A Go pointer is the empty sequence (nil) or a one-element sequence holding
\* the value pointed to.  A nil slice is the empty sequence.
NilPtr == <<>>
Ptr(v) == <<v>>
Deref(p) == p[1]

\* A struct-valued local that has not been assigned yet.
Unset == <<>>

\* ------------------------------------------------------------ bounds
MaxStrLen == 5     \* longest argument of stripLeadingNumbers (SpecStrip)
MaxTextLen == 5    \* longest raw completion text drawn character by character
MaxLines == 3      \* most lines in a completion text built from LinePool
MaxDraw == 4       \* outcomes of one random draw enumerated at each end of its range
NumInvocations == 2 \* concurrent invocations of InterviewQuestions (SpecConc)

\* All sequences over alphabet A of length at most n.
StrsUpTo(A, n) == UNION {[1..k -> A] : k \in 0..n}

\* ------------------------------------------------------------ strings
Digits == {"0", "1", "2", "3", "4", "5", "6", "7", "8", "9"}

\* unicode.IsSpace restricted to the characters the model draws from.
IsSpace(c) == c \in {" ", "\t", "\n", "\r"}

RECURSIVE TrimLeft(_)
TrimLeft(s) ==
    IF s # <<>> /\ IsSpace(Head(s)) THEN TrimLeft(Tail(s)) ELSE s

RECURSIVE TrimRight(_)
TrimRight(s) ==
    IF s # <<>> /\ IsSpace(s[Len(s)]) THEN TrimRight(SubSeq(s, 1, Len(s) - 1)) ELSE s

\* strings.TrimSpace
TrimSpace(s) == TrimRight(TrimLeft(s))

\* strings.Index(s, c) for a one-character c: 0-based position of the first
\* occurrence, -1 when there is none.
Index(s, c) ==
    IF \E i \in 1..Len(s) : s[i] = c
    THEN (CHOOSE i \in 1..Len(s) : s[i] = c /\ \A j \in 1..(i - 1) : s[j] # c) - 1
    ELSE -1

HasPrefix(s, c) == s # <<>> /\ s[1] = c
HasSuffix(s, c) == s # <<>> /\ s[Len(s)] = c

\* strconv.Atoi(s) returns a nil error: an optional sign ("+" or "-")
\* followed by at least one decimal digit and nothing else.  (The strings
\* given to it here have at most two characters, so no range error.)
AtoiOk(s) ==
    LET body == IF s # <<>> /\ s[1] \in {"+", "-"} THEN Tail(s) ELSE s
    IN  body # <<>> /\ \A i \in 1..Len(body) : body[i] \in Digits

stripLeadingNumber(question, punc) ==
    LET pos == Index(question, punc)
        ques == IF pos > -1 /\ pos <= 2 /\ AtoiOk(SubSeq(question, 1, pos))
                THEN SubSeq(question, pos + 2, Len(question))
                ELSE question
    IN  TrimSpace(ques)

stripLeadingNumbers(question) ==
    stripLeadingNumber(stripLeadingNumber(question, "."), ")")

parseText(question) ==
    LET t == TrimSpace(question)
        ques == IF HasPrefix(t, "-") THEN Tail(t) ELSE t
    IN  TrimSpace(stripLeadingNumbers(ques))

\* ------------------------------------------------------------------
\* The parts of the state a specification does not use stay at these values.
\* ------------------------------------------------------------------
StripIdle ==
    /\ sPc = "idle" /\ sIn = <<>>
    /\ sDot = <<>> /\ sParen = <<>> /\ sOut = <<>> /\ sOut2 = <<>>

ParseIdle ==
    /\ ppc = "idle" /\ text = <<>> /\ shuffle = FALSE /\ parts = <<>>
    /\ data = <<>> /\ shufN = 0 /\ randIndex = 0 /\ draws = 0
    /\ shufOrig = <<>> /\ items = <<>>

MainIdle ==
    /\ pc = "idle" /\ input = Unset /\ settings = NilPtr /\ options = NilPtr
    /\ opts = NilPtr /\ jobTitle = <<>> /\ jobDesc = <<>> /\ prompt = <<>>
    /\ request = Unset /\ quesCap = 0 /\ resp = Unset /\ chIdx = 0 /\ itIdx = 0
    /\ calls = 0 /\ result = NilPtr /\ err = ""

RandIdle ==
    /\ rPc = "idle" /\ rTemp = NilPtr /\ rTopP = NilPtr /\ rTempTop = 0
    /\ rSettings = NilPtr

ConcIdle ==
    /\ cPc = <<>> /\ cArg = <<>> /\ cEngine = <<>> /\ cSeen = <<>>

\* ------------------------------------------------------------------
\* SpecStrip: stripLeadingNumber / stripLeadingNumbers as functions of an
\* arbitrary bounded string.
\* ------------------------------------------------------------------
StripAlphabet == {" ", "1", "-", "+", ".", ")", "x"}

InitStrip ==
    /\ sPc = "start"
    /\ sIn \in StrsUpTo(StripAlphabet, MaxStrLen)
    /\ sDot = <<>> /\ sParen = <<>> /\ sOut = <<>> /\ sOut2 = <<>>
    /\ ParseIdle
    /\ MainIdle
    /\ RandIdle
    /\ ConcIdle

StripDot ==
    /\ sPc = "start"
    /\ sDot' = stripLeadingNumber(sIn, ".")
    /\ sPc' = "dot"
    /\ UNCHANGED <<sIn, sParen, sOut, sOut2>>
    /\ UNCHANGED <<parseVars, mainVars, randVars, concVars>>

StripParenOnly ==
    /\ sPc = "start"
    /\ sParen' = stripLeadingNumber(sIn, ")")
    /\ sPc' = "paren"
    /\ UNCHANGED <<sIn, sDot, sOut, sOut2>>
    /\ UNCHANGED <<parseVars, mainVars, randVars, concVars>>

StripParen ==
    /\ sPc = "dot"
    /\ sOut' = stripLeadingNumber(sDot, ")")
    /\ sPc' = "done"
    /\ UNCHANGED <<sIn, sDot, sParen, sOut2>>
    /\ UNCHANGED <<parseVars, mainVars, randVars, concVars>>

StripAgain ==
    /\ sPc = "done"
    /\ sOut2' = stripLeadingNumbers(sOut)
    /\ sPc' = "again"
    /\ UNCHANGED <<sIn, sDot, sParen, sOut>>
    /\ UNCHANGED <<parseVars, mainVars, randVars, concVars>>

NextStrip == StripDot \/ StripParenOnly \/ StripParen \/ StripAgain

SpecStrip == InitStrip /\ [][NextStrip]_vars

\* ------------------------------------------------------------------
\* Random source (src/utils.go)
\* ------------------------------------------------------------------
\* The outcomes of rand.Int(rand.Reader, n) that are enumerated: the MaxDraw
\* lowest and the MaxDraw highest of [0, n).
RandInt(n) == {k \in 0..(n - 1) : k < MaxDraw \/ k >= n - MaxDraw}

\* random(min, max): min + a draw from [0, max-min); min itself when the
\* entropy source fails (the draw 0 gives the same value).
random(min, max) == {min + k : k \in RandInt(max - min)} \cup {min}

\* ------------------------------------------------------------------
\* parseInterviewChoice and Shuffle
\* ------------------------------------------------------------------
\* strings.Split(s, "\n")
RECURSIVE Split(_)
Split(s) ==
    LET p == Index(s, "\n")
    IN  IF p = -1 THEN <<s>>
        ELSE <<SubSeq(s, 1, p)>> \o Split(SubSeq(s, p + 2, Len(s)))

\* The guard without its suffix test.
IsQuestionLineNoSuffix(part) == Len(part) > 0

\* The guard of the range loop: len(part) > 0 && strings.HasSuffix(part, "?")
IsQuestionLine(part) == Len(part) > 0 /\ HasSuffix(part, "?")

\* A one-sided assignment, questions[i] = questions[j], in place of the swap.
SwapOverwrite(questions, i, j) == [questions EXCEPT ![i] = questions[j]]

\* questions[i], questions[j] = questions[j], questions[i]  (1-based here)
Swap(questions, i, j) ==
    [questions EXCEPT ![i] = questions[j], ![j] = questions[i]]

ParseBegin ==
    /\ ppc = "begin"
    /\ IF Len(text) = 0
       THEN /\ items' = <<>>
            /\ ppc' = "ret"
            /\ UNCHANGED <<parts, data>>
       ELSE /\ parts' = Split(text)
            /\ data' = <<>>
            /\ ppc' = "loop"
            /\ UNCHANGED items
    /\ UNCHANGED <<text, shuffle, shufN, randIndex, draws, shufOrig>>
    /\ UNCHANGED <<stripVars, mainVars, randVars, concVars>>

ParsePart ==
    /\ ppc = "loop"
    /\ parts # <<>>
    /\ LET part == Head(parts)
       IN  data' = IF IsQuestionLine(part)
                   THEN Append(data, [Index |-> Len(data) + 1,
                                      Question |-> parseText(part)])
                   ELSE data
    /\ parts' = Tail(parts)
    /\ UNCHANGED <<ppc, text, shuffle, shufN, randIndex, draws, shufOrig, items>>
    /\ UNCHANGED <<stripVars, mainVars, randVars, concVars>>

ParseEnd ==
    /\ ppc = "loop"
    /\ parts = <<>>
    /\ IF Len(data) = 0
       THEN /\ items' = <<>>
            /\ ppc' = "ret"
            /\ UNCHANGED <<shufN, draws, shufOrig>>
       ELSE IF shuffle
       THEN /\ ppc' = "shuffle"
            /\ shufN' = Len(data)
            /\ draws' = 0
            /\ shufOrig' = data
            /\ UNCHANGED items
       ELSE /\ items' = data
            /\ ppc' = "ret"
            /\ UNCHANGED <<shufN, draws, shufOrig>>
    /\ UNCHANGED <<text, shuffle, parts, data, randIndex>>
    /\ UNCHANGED <<stripVars, mainVars, randVars, concVars>>

\* One iteration of Shuffle's loop.
ShuffleStep ==
    /\ ppc = "shuffle"
    /\ shufN > 0
    /\ \E r \in random(0, shufN) :
          /\ randIndex' = r
          /\ data' = Swap(data, shufN, r + 1)
    /\ shufN' = shufN - 1
    /\ draws' = draws + 1
    /\ UNCHANGED <<ppc, text, shuffle, parts, shufOrig, items>>
    /\ UNCHANGED <<stripVars, mainVars, randVars, concVars>>

\* Shuffle's loop condition fails; parseInterviewChoice returns data.
ShuffleReturn ==
    /\ ppc = "shuffle"
    /\ shufN = 0
    /\ items' = data
    /\ ppc' = "ret"
    /\ UNCHANGED <<text, shuffle, parts, data, shufN, randIndex, draws, shufOrig>>
    /\ UNCHANGED <<stripVars, mainVars, randVars, concVars>>

\* ------------------------------------------------------------------
\* SpecParse: parseInterviewChoice applied to an arbitrary bounded text.
\* ------------------------------------------------------------------
TextAlphabet == {"\n", "?", "x", "1", ".", " ", "-"}

InitParse ==
    /\ ppc = "begin"
    /\ text \in StrsUpTo(TextAlphabet, MaxTextLen)
    /\ shuffle \in BOOLEAN
    /\ parts = <<>> /\ data = <<>> /\ shufN = 0 /\ randIndex = 0 /\ draws = 0
    /\ shufOrig = <<>> /\ items = <<>>
    /\ StripIdle
    /\ MainIdle
    /\ RandIdle
    /\ ConcIdle

NextParse == ParseBegin \/ ParsePart \/ ParseEnd \/ ShuffleStep \/ ShuffleReturn

SpecParse == InitParse /\ [][NextParse]_vars

\* ------------------------------------------------------------------
\* Client.InterviewQuestions
\* ------------------------------------------------------------------
InterviewDefaultCap == 5
InterviewMaxCap == 50
InterviewDefaultEngine == <<"text-davinci-001">>
NumCompletions == 1

ErrInvalidInput == "must specify a job title or description"
ErrMissingSettings == "request settings are required"
ErrExternal == "completion call failed"
NilDereference == "panic: nil pointer dereference"

\* trimStr without the strings.TrimSpace.
trimStrNoTrim(p) == IF p = NilPtr THEN <<>> ELSE Deref(p)

\* trimStr(input *string)
trimStr(p) == IF p = NilPtr THEN <<>> ELSE TrimSpace(Deref(p))

\* InterviewOptions.GetCap
GetCap(o) ==
    LET capped == IF o.Cap # NilPtr THEN Deref(o.Cap) ELSE InterviewDefaultCap
    IN  IF capped > InterviewMaxCap THEN InterviewMaxCap ELSE capped

NewInterviewOptions(cap) == Ptr([Cap |-> Ptr(cap), Shuffle |-> FALSE])

\* formatInterviewInput: every "\r\n" or "\n" becomes one space, every
\* bullet glyph is removed.
Bullet == "bullet"
RECURSIVE formatInterviewInput(_)
formatInterviewInput(s) ==
    IF s = <<>> THEN <<>>
    ELSE IF Len(s) >= 2 /\ s[1] = "\r" /\ s[2] = "\n"
         THEN <<" ">> \o formatInterviewInput(SubSeq(s, 3, Len(s)))
    ELSE IF s[1] = "\n" THEN <<" ">> \o formatInterviewInput(Tail(s))
    ELSE IF s[1] = Bullet THEN formatInterviewInput(Tail(s))
    ELSE <<s[1]>> \o formatInterviewInput(Tail(s))

\* getInterviewPrompt; the fixed words of a template are one element each.
getInterviewPrompt(title, desc) ==
    IF Len(title) > 0 /\ Len(desc) > 0
    THEN <<"Create a list of questions for my interview with a ">>
         \o formatInterviewInput(title) \o <<", ">> \o formatInterviewInput(desc)
    ELSE IF Len(title) > 0
    THEN <<"Create a list of questions for my interview with a ">>
         \o formatInterviewInput(title)
    ELSE IF Len(desc) > 0
    THEN <<"Create a list of questions for my interview with a job description of ">>
         \o formatInterviewInput(desc)
    ELSE <<>>

\* mapInterviewSettings dereferences three pointers of the settings.
MapPanics(st) ==
    st.MaxTokens = NilPtr \/ st.Temperature = NilPtr \/ st.TopP = NilPtr

mapInterviewSettings(st, pr) ==
    [Echo |-> FALSE, FrequencyPenalty |-> st.FrequencyPenalty,
     MaxTokens |-> Deref(st.MaxTokens), N |-> NumCompletions,
     PresencePenalty |-> st.PresencePenalty, Prompt |-> pr, Stream |-> FALSE,
     Temperature |-> Deref(st.Temperature), TopP |-> Deref(st.TopP),
     User |-> st.User,
     Model |-> st.Engine]

\* Join of lines with "\n".
RECURSIVE Join(_)
Join(ls) ==
    IF ls = <<>> THEN <<>>
    ELSE IF Len(ls) = 1 THEN ls[1]
    ELSE ls[1] \o <<"\n">> \o Join(Tail(ls))

\* The lines the completion service composes its texts from.
LinePool ==
    { <<"a", "?">>, <<"1", ".", " ", "b", "?">>, <<"-", " ", "c">> }

ServiceTexts == {Join(ls) : ls \in StrsUpTo(LinePool, MaxLines)}

\* What CreateCompletion can answer to a request: an error, or at most
\* request.N choices.
Responses(req) ==
    {[failed |-> TRUE, Choices |-> <<>>]}
    \cup {[failed |-> FALSE, Choices |-> cs] : cs \in StrsUpTo(ServiceTexts, req.N)}

\* Lines 220-230: trimming and the two validations.
Validate ==
    /\ pc = "start"
    /\ jobTitle' = trimStr(input.JobTitle)
    /\ jobDesc' = trimStr(input.JobDescription)
    /\ IF Len(jobTitle') = 0 /\ Len(jobDesc') = 0
       THEN /\ err' = ErrInvalidInput
            /\ pc' = "done"
       ELSE IF settings = NilPtr
       THEN /\ err' = ErrMissingSettings
            /\ pc' = "done"
       ELSE /\ pc' = "prepare"
            /\ UNCHANGED err
    /\ UNCHANGED <<input, settings, options, opts, prompt, request, quesCap,
                   resp, chIdx, itIdx, calls, result>>
    /\ UNCHANGED <<stripVars, parseVars, randVars, concVars>>

\* Lines 231-240: default engine (written into the caller's settings),
\* default options, prompt, request mapping, cap.
Prepare ==
    /\ pc = "prepare"
    /\ settings' = IF Len(Deref(settings).Engine) = 0
                   THEN Ptr([Deref(settings) EXCEPT !.Engine = InterviewDefaultEngine])
                   ELSE settings
    /\ opts' = IF options = NilPtr THEN NewInterviewOptions(InterviewDefaultCap)
               ELSE options
    /\ prompt' = getInterviewPrompt(jobTitle, jobDesc)
    /\ IF MapPanics(Deref(settings'))
       THEN /\ err' = NilDereference
            /\ pc' = "done"
            /\ UNCHANGED <<request, quesCap>>
       ELSE /\ request' = mapInterviewSettings(Deref(settings'), prompt')
            /\ quesCap' = GetCap(Deref(opts'))
            /\ pc' = "call"
            /\ UNCHANGED err
    /\ UNCHANGED <<input, options, jobTitle, jobDesc, resp, chIdx, itIdx,
                   calls, result>>
    /\ UNCHANGED <<stripVars, parseVars, randVars, concVars>>

\* Lines 242-255: the external call, and the result envelope on success.
CreateCompletion ==
    /\ pc = "call"
    /\ calls' = calls + 1
    /\ \E r \in Responses(request) :
          /\ resp' = r
          /\ IF r.failed
             THEN /\ err' = ErrExternal
                  /\ pc' = "done"
                  /\ UNCHANGED <<result, chIdx>>
             ELSE /\ result' = Ptr([Options |-> opts,
                                    Request |-> [Prompt |-> prompt,
                                                 Settings |-> Deref(settings)],
                                    Questions |-> <<>>])
                  /\ chIdx' = 1
                  /\ pc' = "choices"
                  /\ UNCHANGED err
    /\ UNCHANGED <<input, settings, options, opts, jobTitle, jobDesc, prompt,
                   request, quesCap, itIdx>>
    /\ UNCHANGED <<stripVars, parseVars, randVars, concVars>>

\* Lines 258-259: the next choice is handed to parseInterviewChoice.
NextChoice ==
    /\ pc = "choices"
    /\ chIdx <= Len(resp.Choices)
    /\ text' = resp.Choices[chIdx]
    /\ shuffle' = Deref(opts).Shuffle
    /\ ppc' = "begin"
    /\ parts' = <<>> /\ data' = <<>> /\ shufN' = 0 /\ randIndex' = 0
    /\ draws' = 0 /\ shufOrig' = <<>> /\ items' = <<>>
    /\ pc' = "parsing"
    /\ UNCHANGED <<input, settings, options, opts, jobTitle, jobDesc, prompt,
                   request, quesCap, resp, chIdx, itIdx, calls, result, err>>
    /\ UNCHANGED <<stripVars, randVars, concVars>>

\* Lines 259-263: parseInterviewChoice has returned.
TakeItems ==
    /\ pc = "parsing"
    /\ ppc = "ret"
    /\ IF items = <<>>
       THEN /\ pc' = "choices"
            /\ chIdx' = chIdx + 1
            /\ UNCHANGED itIdx
       ELSE /\ pc' = "accumulate"
            /\ itIdx' = 1
            /\ UNCHANGED chIdx
    /\ UNCHANGED <<input, settings, options, opts, jobTitle, jobDesc, prompt,
                   request, quesCap, resp, calls, result, err>>
    /\ UNCHANGED <<stripVars, parseVars, randVars, concVars>>

\* Lines 263-271: one iteration of the inner range loop, its break and its end.
Accumulate ==
    /\ pc = "accumulate"
    /\ IF itIdx > Len(items) \/ Len(Deref(result).Questions) = quesCap
       THEN /\ pc' = "choices"
            /\ chIdx' = chIdx + 1
            /\ UNCHANGED <<itIdx, result>>
       ELSE /\ result' = Ptr([Deref(result) EXCEPT !.Questions =
                                 Append(@, [Index |-> Len(@) + 1,
                                            Question |-> items[itIdx].Question])])
            /\ itIdx' = itIdx + 1
            /\ UNCHANGED <<pc, chIdx>>
    /\ UNCHANGED <<input, settings, options, opts, jobTitle, jobDesc, prompt,
                   request, quesCap, resp, calls, err>>
    /\ UNCHANGED <<stripVars, parseVars, randVars, concVars>>

\* Lines 275-277: every choice was processed.  (Duration, a wall-clock
\* reading, is not modelled.)
Return ==
    /\ pc = "choices"
    /\ chIdx > Len(resp.Choices)
    /\ pc' = "done"
    /\ UNCHANGED <<input, settings, options, opts, jobTitle, jobDesc, prompt,
                   request, quesCap, resp, chIdx, itIdx, calls, result, err>>
    /\ UNCHANGED <<stripVars, parseVars, randVars, concVars>>

\* The inputs of one invocation.
InputStrings ==
    { NilPtr, Ptr(<<>>), Ptr(<<" ", "\n">>), Ptr(<<"a">>),
      Ptr(<<" ", "a", "\n", "b", " ">>) }

\* Penalties, temperature and top-p are in hundredths.
SettingsPool ==
    {NilPtr} \cup
    { Ptr(st) : st \in
        [Engine : {<<>>, <<"custom-engine">>}, FrequencyPenalty : {75},
         MaxTokens : {NilPtr, Ptr(175)}, PresencePenalty : {70},
         Temperature : {NilPtr, Ptr(100)}, TopP : {NilPtr, Ptr(85)},
         User : {<<"u">>}] }

CapPool == {NilPtr, Ptr(-1), Ptr(0), Ptr(1), Ptr(2), Ptr(51)}

OptionsPool == {NilPtr} \cup {Ptr(o) : o \in [Cap : CapPool, Shuffle : BOOLEAN]}

Init ==
    /\ pc = "start"
    /\ input \in [JobTitle : InputStrings, JobDescription : InputStrings]
    /\ settings \in SettingsPool
    /\ options \in OptionsPool
    /\ opts = NilPtr /\ jobTitle = <<>> /\ jobDesc = <<>> /\ prompt = <<>>
    /\ request = Unset /\ quesCap = 0 /\ resp = Unset /\ chIdx = 0 /\ itIdx = 0
    /\ calls = 0 /\ result = NilPtr /\ err = ""
    /\ StripIdle
    /\ ParseIdle
    /\ RandIdle
    /\ ConcIdle

Next ==
    \/ Validate \/ Prepare \/ CreateCompletion \/ NextChoice \/ TakeItems
    \/ Accumulate \/ Return
    \/ ParseBegin \/ ParsePart \/ ParseEnd \/ ShuffleStep \/ ShuffleReturn

Spec == Init /\ [][Next]_vars

\* ------------------------------------------------------------------
\* NewInterviewSettingsRand (SpecRand).  A float32 is held in hundredths:
\* float32Rand(min, max) draws from [int64(min*100), int64(max*100)) and
\* divides by 100, and for each pair of literals the code passes the
\* float32 products truncate to the whole numbers written here
\* (0.3 -> 30, 0.9 -> 90, 0.2 -> 20, 0.85 -> 85, 0.1 -> 10, 0.8 -> 80).
\* ------------------------------------------------------------------
Float32Ptr(f) == Ptr(f)

\* float32Rand(min, max), both in hundredths
float32Rand(min, max) == random(min, max)

\* float32PtrRand(min, max)
float32PtrRand(min, max) == {Ptr(r) : r \in float32Rand(min, max)}

\* intPtrRand(min, max)
intPtrRand(min, max) == {Ptr(r) : r \in random(min, max)}

\* The selector test with >= in place of >.
UsesTemperatureFrom7(rTempTopDraw) == rTempTopDraw >= 7

\* The test of line 180 on the selector draw.
UsesTemperature(rTempTopDraw) == rTempTopDraw > 7

\* Lines 176-177
RandTopP ==
    /\ rPc = "start"
    /\ rTemp' = Float32Ptr(100)
    /\ rTopP' \in float32PtrRand(30, 90)
    /\ rPc' = "select"
    /\ UNCHANGED <<rTempTop, rSettings>>
    /\ UNCHANGED <<stripVars, parseVars, mainVars, concVars>>

\* Lines 179-183
RandSelect ==
    /\ rPc = "select"
    /\ rTempTop' \in random(1, 10)
    /\ IF UsesTemperature(rTempTop')
       THEN /\ rTemp' \in float32PtrRand(30, 90)
            /\ rTopP' = Float32Ptr(100)
       ELSE UNCHANGED <<rTemp, rTopP>>
    /\ rPc' = "build"
    /\ UNCHANGED rSettings
    /\ UNCHANGED <<stripVars, parseVars, mainVars, concVars>>

\* Lines 185-195
RandBuild ==
    /\ rPc = "build"
    /\ \E fp \in float32Rand(20, 85), mt \in intPtrRand(175, 275),
          pp \in float32Rand(10, 80) :
          rSettings' = Ptr([Engine |-> InterviewDefaultEngine,
                            FrequencyPenalty |-> fp, MaxTokens |-> mt,
                            PresencePenalty |-> pp, Temperature |-> rTemp,
                            TopP |-> rTopP, User |-> <<"u">>])
    /\ rPc' = "done"
    /\ UNCHANGED <<rTemp, rTopP, rTempTop>>
    /\ UNCHANGED <<stripVars, parseVars, mainVars, concVars>>

InitRand ==
    /\ rPc = "start" /\ rTemp = NilPtr /\ rTopP = NilPtr /\ rTempTop = 0
    /\ rSettings = NilPtr
    /\ StripIdle
    /\ ParseIdle
    /\ MainIdle
    /\ ConcIdle

NextRand == RandTopP \/ RandSelect \/ RandBuild

SpecRand == InitRand /\ [][NextRand]_vars

\* ------------------------------------------------------------------
\* SpecConc: NumInvocations goroutines run InterviewQuestions with no
\* synchronisation between them, each on the settings pointer its caller
\* passed; callers may pass the same object.  The steps are the accesses of
\* lines 214-255 to the one field the function writes, settings.Engine.  A
\* Go string is two words (data, length); an unsynchronised assignment
\* stores them one after the other in an order the build chooses, and an
\* unsynchronised read can see one new word and one old.
\* ------------------------------------------------------------------
Invocations == 1..NumInvocations
SettingsObjects == {1, 2}

EmptyHeader == [dataWord |-> "none", lenWord |-> 0]
CustomHeader == [dataWord |-> "custom-engine", lenWord |-> 13]
DefaultHeader == [dataWord |-> "text-davinci-001", lenWord |-> 16]

\* Line 231: len(settings.Engine) == 0 reads the length word.
ConcCheckEngine(i) ==
    /\ cPc[i] = "check"
    /\ cPc' = [cPc EXCEPT ![i] =
                 IF cEngine[cArg[i]].lenWord = 0 THEN "store" ELSE "map"]
    /\ UNCHANGED <<cArg, cEngine, cSeen>>
    /\ UNCHANGED <<stripVars, parseVars, mainVars, randVars>>

\* Line 232, first word stored.
ConcStoreFirst(i) ==
    /\ cPc[i] = "store"
    /\ \/ /\ cEngine' = [cEngine EXCEPT ![cArg[i]].dataWord = DefaultHeader.dataWord]
          /\ cPc' = [cPc EXCEPT ![i] = "storeLen"]
       \/ /\ cEngine' = [cEngine EXCEPT ![cArg[i]].lenWord = DefaultHeader.lenWord]
          /\ cPc' = [cPc EXCEPT ![i] = "storeData"]
    /\ UNCHANGED <<cArg, cSeen>>
    /\ UNCHANGED <<stripVars, parseVars, mainVars, randVars>>

\* Line 232, second word stored.
ConcStoreSecond(i) ==
    /\ cPc[i] \in {"storeLen", "storeData"}
    /\ cEngine' = IF cPc[i] = "storeLen"
                  THEN [cEngine EXCEPT ![cArg[i]].lenWord = DefaultHeader.lenWord]
                  ELSE [cEngine EXCEPT ![cArg[i]].dataWord = DefaultHeader.dataWord]
    /\ cPc' = [cPc EXCEPT ![i] = "map"]
    /\ UNCHANGED <<cArg, cSeen>>
    /\ UNCHANGED <<stripVars, parseVars, mainVars, randVars>>

\* Line 239 (mapInterviewSettings reads settings.Engine at line 210).
ConcMapSettings(i) ==
    /\ cPc[i] = "map"
    /\ cSeen' = [cSeen EXCEPT ![i] = cEngine[cArg[i]]]
    /\ cPc' = [cPc EXCEPT ![i] = "call"]
    /\ UNCHANGED <<cArg, cEngine>>
    /\ UNCHANGED <<stripVars, parseVars, mainVars, randVars>>

\* Line 242: the completion call; it touches no settings object.
ConcCall(i) ==
    /\ cPc[i] = "call"
    /\ \E ok \in BOOLEAN : cPc' = [cPc EXCEPT ![i] = IF ok THEN "copy" ELSE "done"]
    /\ UNCHANGED <<cArg, cEngine, cSeen>>
    /\ UNCHANGED <<stripVars, parseVars, mainVars, randVars>>

\* Lines 249-255: Settings: *settings copies the object, Engine included.
ConcCopySettings(i) ==
    /\ cPc[i] = "copy"
    /\ cSeen' = [cSeen EXCEPT ![i] = cEngine[cArg[i]]]
    /\ cPc' = [cPc EXCEPT ![i] = "done"]
    /\ UNCHANGED <<cArg, cEngine>>
    /\ UNCHANGED <<stripVars, parseVars, mainVars, randVars>>

InitConc ==
    /\ cPc = [i \in Invocations |-> "check"]
    /\ cArg \in [Invocations -> SettingsObjects]
    /\ cEngine \in [SettingsObjects -> {EmptyHeader, CustomHeader}]
    /\ cSeen = [i \in Invocations |-> EmptyHeader]
    /\ StripIdle
    /\ ParseIdle
    /\ MainIdle
    /\ RandIdle

NextConc ==
    \E i \in Invocations :
        \/ ConcCheckEngine(i) \/ ConcStoreFirst(i) \/ ConcStoreSecond(i)
        \/ ConcMapSettings(i) \/ ConcCall(i) \/ ConcCopySettings(i)

SpecConc == InitConc /\ [][NextConc]_vars

\* ==================================================================
\* Properties
\* ==================================================================
Min(a, b) == IF a <= b THEN a ELSE b

\* A caller-supplied *string that is absent, empty or whitespace only.
TrimsToEmpty(p) == p = NilPtr \/ \A i \in 1..Len(Deref(p)) : IsSpace(Deref(p)[i])

BothEmpty == TrimsToEmpty(input.JobTitle) /\ TrimsToEmpty(input.JobDescription)

\* The questions of the result being built.
Questions == Deref(result).Questions

\* The cap the data model describes, from the caller's options.
EffectiveCap ==
    IF options = NilPtr \/ Deref(options).Cap = NilPtr
    THEN InterviewDefaultCap
    ELSE Min(Deref(Deref(options).Cap), InterviewMaxCap)

EndsInQuestionMark(line) == line # <<>> /\ line[Len(line)] = "?"

\* The lines of a raw text that end in "?", in order.
QuestionLines(t) == SelectSeq(Split(t), EndsInQuestionMark)

IsSuffix(a, b) == Len(a) <= Len(b) /\ a = SubSeq(b, Len(b) - Len(a) + 1, Len(b))

\* a and b hold the same elements the same number of times.
SameBag(a, b) ==
    /\ Len(a) = Len(b)
    /\ \A i \in 1..Len(a) :
          Cardinality({j \in 1..Len(a) : a[j] = a[i]})
              = Cardinality({j \in 1..Len(b) : b[j] = a[i]})

\* ------------------------------------------------------------------ C1
\* C1 (as claimed): an invocation whose title and description both trim to
\* empty fails with InvalidInput, and EVERY invocation whose settings are
\* absent fails with MissingSettings; both before any completion call.
C1_AsClaimed ==
    pc = "done" =>
        /\ BothEmpty => (err = ErrInvalidInput /\ result = NilPtr /\ calls = 0)
        /\ settings = NilPtr => (err = ErrMissingSettings /\ result = NilPtr /\ calls = 0)

\* C1 (amended): an invocation whose title and description both trim to
\* empty fails with InvalidInput, whatever its settings; an invocation whose
\* settings are absent and whose title or description does not trim to empty
\* fails with MissingSettings; neither failure is preceded by a completion
\* call.
C1_ValidationBeforeCall ==
    /\ pc = "done" =>
          /\ BothEmpty => (err = ErrInvalidInput /\ result = NilPtr)
          /\ (~BothEmpty /\ settings = NilPtr) =>
                (err = ErrMissingSettings /\ result = NilPtr)
    /\ err \in {ErrInvalidInput, ErrMissingSettings} => calls = 0

\* The colliding case: whitespace-only title, no description, no settings.
C1_Witness ==
    /\ pc = "done"
    /\ input.JobTitle = Ptr(<<" ", "\n">>)
    /\ input.JobDescription = NilPtr
    /\ settings = NilPtr
    /\ err = ErrInvalidInput
    /\ calls = 0

\* ------------------------------------------------------------------ C2
\* C2: a successful invocation returns at most EffectiveCap questions, for
\* any caller-supplied integer cap or none.  (Stated for the results that
\* hold a question: the violation shown is then a list longer than the cap,
\* not an empty list measured against a negative number.)
C2_AtMostEffectiveCap ==
    (pc = "done" /\ err = "" /\ Len(Questions) > 0) => Len(Questions) <= EffectiveCap

\* ------------------------------------------------------------------ C3
\* C3: with shuffle off and n lines ending in "?", a successful invocation
\* returns exactly min(n, c) questions: the first min(n, c) parsed questions
\* in line order, indexed 1..min(n, c).
C3_FirstMinQuestions ==
    (pc = "done" /\ err = "" /\ ~Deref(opts).Shuffle /\ Len(resp.Choices) = 1) =>
        LET lines == QuestionLines(resp.Choices[1])
            m == Min(Len(lines), EffectiveCap)
        IN  Len(lines) >= 1 =>
               /\ Len(Questions) = m
               /\ \A i \in 1..m :
                     Questions[i] = [Index |-> i, Question |-> parseText(lines[i])]

\* ------------------------------------------------------------------ C4
\* C4: every question parseInterviewChoice returns ends in "?" and is what
\* is left of a line of the raw text that ends in "?" after characters were
\* removed from its front; each such line gives one question, no other line
\* gives any, and a text without such a line gives no questions.
C4_QuestionsEndInQuestionMark ==
    ppc = "ret" =>
        LET lines == QuestionLines(text)
        IN  /\ Len(items) = Len(lines)
            /\ \A i \in 1..Len(items) :
                  /\ HasSuffix(items[i].Question, "?")
                  /\ \E j \in 1..Len(lines) : IsSuffix(items[i].Question, lines[j])

\* A text with a line that is dropped and a question line that lost a prefix.
C4_Witness ==
    /\ ppc = "ret"
    /\ Len(Split(text)) = 2
    /\ Len(items) = 1
    /\ items[1].Question = <<"?">>
    /\ Len(QuestionLines(text)[1]) = 3

\* ------------------------------------------------------------------ C5
\* C5: stripLeadingNumbers(stripLeadingNumbers(s)) = stripLeadingNumbers(s)
\* for every string s.
C5_Idempotent == sPc = "again" => sOut2 = sOut

\* ------------------------------------------------------------------ C6
\* One or two decimal digits: the numbers an enumeration marker is made of.
IsNumber(s) == s # <<>> /\ \A i \in 1..Len(s) : s[i] \in Digits

\* s (already trimmed) starts with a number followed by "." or ")".
StartsWithMarker(s) ==
    \E k \in 1..2 : Len(s) > k /\ IsNumber(SubSeq(s, 1, k)) /\ s[k + 1] \in {".", ")"}

\* C6: for q that does not begin with an enumeration marker and a one- or
\* two-digit n, stripLeadingNumbers of n, "." or ")", spaces and q is q
\* trimmed; of a string with no marker it is the string trimmed; of the
\* empty string it is the empty string.
C6_StripsLeadingMarkerOnly ==
    sPc = "done" =>
        /\ \A k \in 1..2 :
              LET q == SubSeq(sIn, k + 2, Len(sIn))
              IN  (/\ Len(sIn) > k
                   /\ IsNumber(SubSeq(sIn, 1, k))
                   /\ sIn[k + 1] \in {".", ")"}
                   /\ ~StartsWithMarker(TrimSpace(q)))
                  => sOut = TrimSpace(q)
        /\ ~StartsWithMarker(TrimSpace(sIn)) => sOut = TrimSpace(sIn)
        /\ sIn = <<>> => sOut = <<>>

\* ------------------------------------------------------------------ C10
\* What C10 says stripLeadingNumber returns for a line and a punctuation.
ClaimedStrip(line, punc) ==
    LET pos == Index(line, punc)
    IN  IF pos \in 0..2 /\ IsNumber(SubSeq(line, 1, pos))
        THEN TrimSpace(SubSeq(line, pos + 2, Len(line)))
        ELSE TrimSpace(line)

\* C10: for "." and then ")", stripLeadingNumber drops a prefix only when
\* the punctuation first occurs at position 0..2 after a non-negative
\* integer; a line whose prefix is empty, signed or non-numeric is only
\* trimmed.
C10_StripsUnsignedPrefixOnly ==
    /\ sPc = "dot" => sDot = ClaimedStrip(sIn, ".")
    /\ sPc = "paren" => sParen = ClaimedStrip(sIn, ")")
    /\ sPc = "done" => sOut = ClaimedStrip(sDot, ")")

\* ------------------------------------------------------------------ C7
\* C7: Shuffle makes one draw per element, each inside the remaining
\* unshuffled range; while it runs it can always take its next step, the
\* draws made and the elements left add up to the length it was given (so
\* it returns after exactly that many draws), and the slice stays a
\* permutation of the questions it was given; the indices of the result
\* the orchestrator builds are 1..N in order.
C7_ShufflePermutes ==
    /\ ppc = "shuffle" =>
          /\ SameBag(data, shufOrig)
          /\ shufN >= 0
          /\ draws + shufN = Len(shufOrig)
          /\ draws > 0 => randIndex \in 0..shufN
          /\ ENABLED ShuffleStep \/ ENABLED ShuffleReturn
    /\ (ppc = "ret" /\ shuffle /\ items # <<>>) =>
          /\ SameBag(items, shufOrig)
          /\ draws = Len(items)
    /\ result # NilPtr => \A i \in 1..Len(Questions) : Questions[i].Index = i

\* A shuffled result of two questions or more whose order changed.
C7_Witness ==
    /\ pc = "done" /\ err = ""
    /\ shuffle
    /\ draws >= 2
    /\ Len(Questions) >= 2
    /\ Questions[1].Question # shufOrig[1].Question
    /\ Questions[2].Index = 2

\* ------------------------------------------------------------------ C8
\* C8: diversity-profile settings have exactly one of temperature and top-p
\* at the neutral 1.0 (100 hundredths) and the other inside [0.3, 0.9];
\* temperature is the randomized one exactly when the selector draw
\* exceeds 7.
C8_OneNeutralOneRandomized ==
    rPc = "done" =>
        LET t == Deref(Deref(rSettings).Temperature)
            p == Deref(Deref(rSettings).TopP)
        IN  /\ \/ (t = 100 /\ p # 100 /\ p >= 30 /\ p <= 90)
               \/ (p = 100 /\ t # 100 /\ t >= 30 /\ t <= 90)
            /\ (t # 100) <=> (rTempTop > 7)
            /\ rTempTop \in 1..9

\* The selector drew 8 and temperature was randomized to its lowest value.
C8_Witness ==
    /\ rPc = "done"
    /\ rTempTop = 8
    /\ Deref(Deref(rSettings).Temperature) = 30
    /\ Deref(Deref(rSettings).TopP) = 100

\* ------------------------------------------------------------------ C9
\* The next access of invocation i to the Engine words of its settings
\* object: "w" a store, "r" a load, "-" none.
NextAccess(i) ==
    CASE cPc[i] \in {"store", "storeLen", "storeData"} -> "w"
      [] cPc[i] \in {"check", "map", "copy"} -> "r"
      [] OTHER -> "-"

\* C9: in no interleaving is a step of one invocation about to write state
\* that a step of another invocation is about to read or write.
C9_NoDataRace ==
    \A i, j \in Invocations :
        (i # j /\ cArg[i] = cArg[j]) =>
            ~(NextAccess(i) = "w" /\ NextAccess(j) \in {"r", "w"})

====
